---- MODULE Spec2Model ----
(***************************************************************************)
(* Credential verification and session tokens of the MRPFX backend         *)
(* (app/core/security.py, app/service/auth.py, app/dependencies/auth.py,   *)
(* app/v1/api/wordpress/users.py).                                         *)
(*                                                                         *)
(* Strings are sequences of one-character strings, byte strings are        *)
(* sequences of 0..255.  A Python call that may raise returns a record     *)
(* [exc |-> name of the exception or "none", val |-> the value returned].  *)
(***************************************************************************)
EXTENDS Integers, Sequences, FiniteSets, TLC

VARIABLES
    password,      \* credential functions: the plaintext argument
    stored_hash,   \* credential functions: the stored hash argument
    hashed_from,   \* <<p>> once stored_hash was produced by hash_password(p)
    call,          \* credential functions: the last call and what it returned
    users,         \* the users table: ID -> row
    now,           \* the clock, in ticks of 1/TicksPerSecond seconds
    advances,      \* how many times the clock was moved
    issued,        \* the tokens the service has returned, with who made them
    response       \* the last request served and what the caller got back

credVars == <<password, stored_hash, hashed_from, call>>
svcVars == <<users, now, advances, issued, response>>
vars == <<password, stored_hash, hashed_from, call,
          users, now, advances, issued, response>>

-----------------------------------------------------------------------------
(* Bounds of the model.                                                    *)

\* phpass hashes of the model use iteration exponents 7..MaxCountLog2
MaxCountLog2 == 8

-----------------------------------------------------------------------------
(* Characters and bytes.                                                   *)

ITOA64 ==
    << ".", "/", "0", "1", "2", "3", "4", "5", "6", "7", "8", "9",
       "A", "B", "C", "D", "E", "F", "G", "H", "I", "J", "K", "L", "M",
       "N", "O", "P", "Q", "R", "S", "T", "U", "V", "W", "X", "Y", "Z",
       "a", "b", "c", "d", "e", "f", "g", "h", "i", "j", "k", "l", "m",
       "n", "o", "p", "q", "r", "s", "t", "u", "v", "w", "x", "y", "z" >>

HexDigits ==
    << "0", "1", "2", "3", "4", "5", "6", "7", "8", "9",
       "a", "b", "c", "d", "e", "f" >>

\* str.find of a single character: the 0-based index, or -1
RECURSIVE FindFrom(_, _, _)
FindFrom(seq, c, i) ==
    IF i > Len(seq) THEN -1
    ELSE IF seq[i] = c THEN i - 1
    ELSE FindFrom(seq, c, i + 1)

Find(seq, c) == FindFrom(seq, c, 1)

\* the characters of the model: "$", "*" and those of ITOA64, with their
\* code points ("." "/" 46-47, digits 48-57, "A"-"Z" 65-90, "a"-"z" 97-122)
CodePoint ==
    [c \in {"$", "*"} \cup { ITOA64[i] : i \in 1..64 } |->
        LET k == Find(ITOA64, c)
        IN  IF c = "$" THEN 36
            ELSE IF c = "*" THEN 42
            ELSE IF k <= 1 THEN 46 + k
            ELSE IF k <= 11 THEN 48 + (k - 2)
            ELSE IF k <= 37 THEN 65 + (k - 12)
            ELSE 97 + (k - 38)]

Ord(c) == CodePoint[c]

\* str.encode("utf-8") on ASCII text
Utf8(s) == [i \in 1..Len(s) |-> Ord(s[i])]

\* str.lower() on one character
LowerChar(c) ==
    LET k == Find(ITOA64, c)
    IN  IF k >= 12 /\ k <= 37 THEN ITOA64[k + 26 + 1] ELSE c

Lower(s) == [i \in 1..Len(s) |-> LowerChar(s[i])]

\* str.startswith
StartsWith(s, prefix) ==
    /\ Len(s) >= Len(prefix)
    /\ \A i \in 1..Len(prefix) : s[i] = prefix[i]

\* the slice s[a:b] for 0 <= a <= b
Slice(s, a, b) ==
    LET hi == IF b < Len(s) THEN b ELSE Len(s)
    IN  IF a >= hi THEN << >> ELSE SubSeq(s, a + 1, hi)

\* s[a:]
SliceFrom(s, a) == Slice(s, a, Len(s))

Ret(v) == [exc |-> "none", val |-> v]
Raise(e, v) == [exc |-> e, val |-> v]

-----------------------------------------------------------------------------
(* hashlib.md5 is a library primitive.  The model uses a 16-byte digest    *)
(* computed from every input byte; the claims that need MD5 to be          *)
(* collision-free are checked against this digest on the model's inputs.   *)

RECURSIVE Md5Absorb(_, _, _, _)
Md5Absorb(bytes, i, a, b) ==
    IF i > Len(bytes) THEN <<a, b>>
    ELSE Md5Absorb(bytes, i + 1,
                   (a * 263 + bytes[i] + 1) % 65521,
                   (b * 269 + a + bytes[i] + i) % 65519)

\* the k-th byte of the digest with accumulators a and b
Md5Byte(a, b, k) == (a * k + b * (k + 7) + k * k) % 256

Md5(bytes) ==
    LET ab == Md5Absorb(bytes, 1, 1, Len(bytes))
        a == ab[1]
        b == ab[2]
    IN  << a % 256, a \div 256, b % 256, b \div 256,
           Md5Byte(a, b, 5), Md5Byte(a, b, 6), Md5Byte(a, b, 7), Md5Byte(a, b, 8),
           Md5Byte(a, b, 9), Md5Byte(a, b, 10), Md5Byte(a, b, 11), Md5Byte(a, b, 12),
           Md5Byte(a, b, 13), Md5Byte(a, b, 14), Md5Byte(a, b, 15), Md5Byte(a, b, 16) >>

\* bytes.hex / hexdigest
HexDigest(bytes) ==
    [i \in 1..(2 * Len(bytes)) |->
        LET byte == bytes[(i + 1) \div 2]
        IN  IF i % 2 = 1 THEN HexDigits[(byte \div 16) + 1]
                         ELSE HexDigits[(byte % 16) + 1]]

-----------------------------------------------------------------------------
(* phpass, app/core/security.py                                            *)

\* one pass of the while loop of _encode64, from index i with output so far
RECURSIVE Encode64From(_, _, _, _)
Encode64From(input_bytes, count, i, output) ==
    IF ~(i < count) THEN output
    ELSE
    LET v0 == input_bytes[i + 1]
        i1 == i + 1
        o1 == Append(output, ITOA64[(v0 % 64) + 1])
        v1 == IF i1 < count THEN v0 + input_bytes[i1 + 1] * 256 ELSE v0
        o2 == Append(o1, ITOA64[((v1 \div 64) % 64) + 1])
    IN  IF i1 >= count THEN o2
        ELSE
        LET i2 == i1 + 1
            v2 == IF i2 < count THEN v1 + input_bytes[i2 + 1] * 65536 ELSE v1
            o3 == Append(o2, ITOA64[((v2 \div 4096) % 64) + 1])
        IN  IF i2 >= count THEN o3
            ELSE Encode64From(input_bytes, count, i2 + 1,
                              Append(o3, ITOA64[((v2 \div 262144) % 64) + 1]))

\* the mutant of _encode64: only whole 3-byte groups are encoded
_encode64_whole_groups(input_bytes, count) ==
    Encode64From(input_bytes, 3 * (count \div 3), 0, << >>)

_encode64(input_bytes, count) == Encode64From(input_bytes, count, 0, << >>)

\* a loop that rehashes the digest alone, without the password
RECURSIVE CryptLoopDigestOnly(_, _, _)
CryptLoopDigestOnly(hash_value, pw_bytes, count) ==
    IF count = 0 THEN hash_value
    ELSE IF count = 1 THEN Md5(hash_value)
    ELSE LET mid == CryptLoopDigestOnly(hash_value, pw_bytes, count \div 2)
         IN  IF Len(mid) = 16
             THEN CryptLoopDigestOnly(mid, pw_bytes, count - (count \div 2))
             ELSE mid

\* the for loop of _crypt_private: count rounds of md5(hash_value + password),
\* run as the first half of the rounds and then, from the 16-byte digest they
\* leave, the rest of them
RECURSIVE CryptLoop(_, _, _)
CryptLoop(hash_value, pw_bytes, count) ==
    IF count = 0 THEN hash_value
    ELSE IF count = 1 THEN Md5(hash_value \o pw_bytes)
    ELSE LET mid == CryptLoop(hash_value, pw_bytes, count \div 2)
         IN  IF Len(mid) = 16
             THEN CryptLoop(mid, pw_bytes, count - (count \div 2))
             ELSE mid

\* the mutant of _crypt_private: the lower bound of the iteration exponent is 0
_crypt_private_no_floor(pw, sh) ==
    LET output == IF StartsWith(sh, <<"*", "0">>) THEN <<"*", "1">> ELSE <<"*", "0">>
    IN  IF ~StartsWith(sh, <<"$", "P", "$">>) /\ ~StartsWith(sh, <<"$", "H", "$">>)
        THEN Ret(output)
        ELSE IF Len(sh) < 4 THEN Raise("IndexError", << >>)
        ELSE
        LET count_log2 == Find(ITOA64, sh[4])
        IN  IF count_log2 < 0 \/ count_log2 > 30 THEN Ret(output)
            ELSE
            LET count == 2 ^ count_log2
                salt == Slice(sh, 4, 12)
            IN  IF Len(salt) # 8 THEN Ret(output)
                ELSE
                LET first == Md5(Utf8(salt \o pw))
                    hash_value == CryptLoop(first, Utf8(pw), count)
                IN  Ret(Slice(sh, 0, 12) \o _encode64(hash_value, 16))

_crypt_private(pw, sh) ==
    LET output == IF StartsWith(sh, <<"*", "0">>) THEN <<"*", "1">> ELSE <<"*", "0">>
    IN  IF ~StartsWith(sh, <<"$", "P", "$">>) /\ ~StartsWith(sh, <<"$", "H", "$">>)
        THEN Ret(output)
        ELSE IF Len(sh) < 4 THEN Raise("IndexError", << >>)
        ELSE
        LET count_log2 == Find(ITOA64, sh[4])
        IN  IF count_log2 < 7 \/ count_log2 > 30 THEN Ret(output)
            ELSE
            LET count == 2 ^ count_log2
                salt == Slice(sh, 4, 12)
            IN  IF Len(salt) # 8 THEN Ret(output)
                ELSE
                LET first == Md5(Utf8(salt \o pw))
                    hash_value == CryptLoop(first, Utf8(pw), count)
                IN  Ret(Slice(sh, 0, 12) \o _encode64(hash_value, 16))

verify_phpass_password(pw, sh) ==
    IF ~StartsWith(sh, <<"$", "P", "$">>) /\ ~StartsWith(sh, <<"$", "H", "$">>)
    THEN Ret(FALSE)
    ELSE
    LET computed_hash == _crypt_private(pw, sh)
    IN  IF computed_hash.exc # "none" THEN Raise(computed_hash.exc, FALSE)
        ELSE Ret(computed_hash.val = sh)

-----------------------------------------------------------------------------
(* The bcrypt library (bcrypt.gensalt, bcrypt.hashpw, bcrypt.checkpw).     *)
(* A hash is "$" version "$" two-digit cost "$" 22 salt characters and 31  *)
(* digest characters.  The digest is a stand-in computed from the cost,    *)
(* the salt and the password.                                              *)

Digits == << "0", "1", "2", "3", "4", "5", "6", "7", "8", "9" >>

\* the parts of s between "$" signs, as s.split("$") gives them
RECURSIVE SplitDollar(_, _, _)
SplitDollar(s, i, part) ==
    IF i > Len(s) THEN << part >>
    ELSE IF s[i] = "$" THEN << part >> \o SplitDollar(s, i + 1, << >>)
    ELSE SplitDollar(s, i + 1, Append(part, s[i]))

\* a decimal number, or -1 when the text is not one
RECURSIVE ParseInt(_, _, _)
ParseInt(s, i, acc) ==
    IF Len(s) = 0 THEN -1
    ELSE IF i > Len(s) THEN acc
    ELSE IF Find(Digits, s[i]) < 0 THEN -1
    ELSE ParseInt(s, i + 1, acc * 10 + Find(Digits, s[i]))

TwoDigits(n) == << Digits[(n \div 10) + 1], Digits[(n % 10) + 1] >>

BcryptDigest(pw_bytes, cost, salt) ==
    Slice(HexDigest(Md5(<<cost>> \o Utf8(salt) \o pw_bytes)), 0, 31)

\* bcrypt.hashpw(password, salt): salt is a whole hash or the output of gensalt
BcryptHashpw(pw_bytes, salt) ==
    LET parts == SplitDollar(salt, 1, << >>)
    IN  IF Len(parts) # 4 THEN Raise("ValueError", << >>)
        ELSE
        LET version == parts[2]
            cost == ParseInt(parts[3], 1, 0)
            remainder == parts[4]
        IN  IF version \notin { <<"2", "a">>, <<"2", "b">>, <<"2", "x">>, <<"2", "y">> }
            THEN Raise("ValueError", << >>)
            ELSE IF cost < 0 THEN Raise("ValueError", << >>)
            ELSE IF Len(remainder) < 22 THEN Raise("ValueError", << >>)
            ELSE IF \E i \in 1..22 : Find(ITOA64, remainder[i]) < 0
            THEN Raise("ValueError", << >>)
            ELSE IF cost < 4 \/ cost > 31
            THEN Raise("ValueError", << >>)
            ELSE
            LET raw_salt == Slice(remainder, 0, 22)
            IN  Ret(<<"$">> \o version \o <<"$">> \o TwoDigits(cost) \o <<"$">>
                    \o raw_salt \o BcryptDigest(pw_bytes, cost, raw_salt))

\* bcrypt.checkpw(password, hashed_password)
BcryptCheckpw(pw_bytes, hashed) ==
    LET again == BcryptHashpw(pw_bytes, hashed)
    IN  IF again.exc # "none" THEN Raise(again.exc, FALSE)
        ELSE Ret(again.val = hashed)

\* bcrypt.gensalt(rounds) with the 22 random characters drawn as raw_salt
BcryptGensalt(rounds, raw_salt) ==
    <<"$", "2", "b", "$">> \o TwoDigits(rounds) \o <<"$">> \o raw_salt

-----------------------------------------------------------------------------
(* bcrypt and dispatch, app/core/security.py                               *)

BCRYPT_ROUNDS == 12

\* the mutant of verify_bcrypt_password: without the except clause
verify_bcrypt_password_uncaught(pw, sh) ==
    LET hash_to_check ==
            IF StartsWith(sh, <<"$", "2", "y", "$">>)
            THEN <<"$", "2", "b", "$">> \o SliceFrom(sh, 4)
            ELSE sh
        checked == BcryptCheckpw(Utf8(pw), hash_to_check)
    IN  IF checked.exc # "none" THEN Raise(checked.exc, FALSE) ELSE Ret(checked.val)

verify_bcrypt_password(pw, sh) ==
    LET hash_to_check ==
            IF StartsWith(sh, <<"$", "2", "y", "$">>)
            THEN <<"$", "2", "b", "$">> \o SliceFrom(sh, 4)
            ELSE sh
        checked == BcryptCheckpw(Utf8(pw), hash_to_check)
    IN  IF checked.exc # "none" THEN Ret(FALSE) ELSE Ret(checked.val)

\* a hash_password that hashes with one fixed salt
hash_password_fixed_salt(pw, raw_salt) ==
    BcryptHashpw(Utf8(pw),
                 BcryptGensalt(BCRYPT_ROUNDS, [i \in 1..22 |-> "."]))

\* hash_password with the salt that gensalt draws
hash_password(pw, raw_salt) ==
    BcryptHashpw(Utf8(pw), BcryptGensalt(BCRYPT_ROUNDS, raw_salt))

IsHex32(sh) ==
    /\ Len(sh) = 32
    /\ \A i \in 1..Len(sh) : Find(HexDigits, LowerChar(sh[i])) >= 0

\* a legacy branch that compares the digest with the first 32 characters
verify_password_prefix(pw, sh) ==
    IF Len(sh) = 0 THEN Ret(FALSE)
    ELSE IF StartsWith(sh, <<"$", "P", "$">>) \/ StartsWith(sh, <<"$", "H", "$">>)
    THEN verify_phpass_password(pw, sh)
    ELSE IF StartsWith(sh, <<"$", "2">>)
    THEN verify_bcrypt_password(pw, sh)
    ELSE IF Len(sh) >= 32 /\ \A i \in 1..Len(sh) : Find(HexDigits, LowerChar(sh[i])) >= 0
    THEN Ret(Lower(HexDigest(Md5(Utf8(pw)))) = Lower(Slice(sh, 0, 32)))
    ELSE Ret(FALSE)

\* a legacy branch that compares the digest with the stored text as it is
verify_password_case(pw, sh) ==
    IF Len(sh) = 0 THEN Ret(FALSE)
    ELSE IF StartsWith(sh, <<"$", "P", "$">>) \/ StartsWith(sh, <<"$", "H", "$">>)
    THEN verify_phpass_password(pw, sh)
    ELSE IF StartsWith(sh, <<"$", "2">>)
    THEN verify_bcrypt_password(pw, sh)
    ELSE IF IsHex32(sh)
    THEN Ret(HexDigest(Md5(Utf8(pw))) = sh)
    ELSE Ret(FALSE)

verify_password(pw, sh) ==
    IF Len(sh) = 0 THEN Ret(FALSE)
    ELSE IF StartsWith(sh, <<"$", "P", "$">>) \/ StartsWith(sh, <<"$", "H", "$">>)
    THEN verify_phpass_password(pw, sh)
    ELSE IF StartsWith(sh, <<"$", "2">>)
    THEN verify_bcrypt_password(pw, sh)
    ELSE IF IsHex32(sh)
    THEN Ret(Lower(HexDigest(Md5(Utf8(pw)))) = Lower(sh))
    ELSE Ret(FALSE)

-----------------------------------------------------------------------------
(* Inputs of the credential functions: plaintext passwords and the         *)
(* contents a user_pass column holds after years of WordPress upgrades.    *)

\* passwords of the model have at most MaxPwLen characters
MaxPwLen == 2

PwChars == { "a", "B" }

RECURSIVE SeqsUpTo(_, _)
SeqsUpTo(S, n) ==
    IF n = 0 THEN { << >> }
    ELSE LET shorter == SeqsUpTo(S, n - 1)
         IN  shorter \cup { Append(t, c) : t \in { u \in shorter : Len(u) = n - 1 }, c \in S }

Passwords == SeqsUpTo(PwChars, MaxPwLen)

UpperChar(c) ==
    LET k == Find(ITOA64, c)
    IN  IF k >= 38 THEN ITOA64[k - 26 + 1] ELSE c

Upper(s) == [i \in 1..Len(s) |-> UpperChar(s[i])]

\* the salt of the phpass hashes of the model
PhpassSalt == << "a", "b", "c", "d", "e", "f", "g", "h" >>

\* the 22 salt characters bcrypt.gensalt may draw
BcryptSalts == { << "a", "b", "c", "d", "e", "f", "g", "h", "i", "j", "k", "l", "m", "n", "o", "p", "q", "r", "s", "t", "u", "v" >>, << "A", "B", "C", "D", "E", "F", "G", "H", "I", "J", "K", "L", "M", "N", "O", "P", "Q", "R", "S", "T", "U", "." >> }

\* what WordPress's phpass stored for password pw: 2^L rounds of
\* md5(digest + password) from md5(salt + password), the digest written as
\* 22 base-64 digits of the 128-bit little-endian number, least digit first
RECURSIVE PhpassRounds(_, _, _)
PhpassRounds(digest, pw_bytes, log2) ==
    IF log2 = 0 THEN Md5(digest \o pw_bytes)
    ELSE LET half == PhpassRounds(digest, pw_bytes, log2 - 1)
         IN  IF Len(half) = 16 THEN PhpassRounds(half, pw_bytes, log2 - 1) ELSE half

DigestBit(digest, t) ==
    IF t >= 128 THEN 0 ELSE (digest[(t \div 8) + 1] \div (2 ^ (t % 8))) % 2

PhpassDigits(digest) ==
    LET digit(j) ==
            DigestBit(digest, 6 * j) + 2 * DigestBit(digest, 6 * j + 1)
            + 4 * DigestBit(digest, 6 * j + 2) + 8 * DigestBit(digest, 6 * j + 3)
            + 16 * DigestBit(digest, 6 * j + 4) + 32 * DigestBit(digest, 6 * j + 5)
        d(j) == ITOA64[digit(j) + 1]
    IN  << d(0), d(1), d(2), d(3), d(4), d(5), d(6), d(7), d(8), d(9), d(10),
           d(11), d(12), d(13), d(14), d(15), d(16), d(17), d(18), d(19), d(20),
           d(21) >>

WordPressPhpassHash(id, pw, salt, log2) ==
    <<"$", id, "$", ITOA64[log2 + 1]>> \o salt
    \o PhpassDigits(PhpassRounds(Md5(Utf8(salt \o pw)), Utf8(pw), log2))

PhpassGood ==
    { WordPressPhpassHash("P", pw, PhpassSalt, L) : pw \in Passwords, L \in 7..MaxCountLog2 }
    \cup { WordPressPhpassHash("H", pw, PhpassSalt, 7) : pw \in Passwords }

\* phpass-prefixed values that are cut short or carry a bad iteration character
PhpassMalformed ==
    LET whole == WordPressPhpassHash("P", <<"a">>, PhpassSalt, 7)
    IN  { Slice(whole, 0, n) : n \in {3, 4, 8, 11, 12, 20} }
        \cup { <<"$", "H", "$">> }
        \cup { <<"$", "P", "$", c>> \o SliceFrom(whole, 4) : c \in {".", "4", "T", "z", "$"} }

\* the bcrypt hash of pw with cost 10, without its "$2b$" marker
BcryptBody(pw, raw_salt) ==
    SliceFrom(BcryptHashpw(Utf8(pw), <<"$", "2", "b", "$", "1", "0", "$">> \o raw_salt).val, 4)

BcryptForms(pw, raw_salt) ==
    { prefix \o BcryptBody(pw, raw_salt) :
        prefix \in { <<"$", "2", "y", "$">>, <<"$", "2", "b", "$">>, <<"$", "2", "a", "$">>,
                     <<"$", "w", "p", "$", "2", "y", "$">>,
                     <<"$", "2", "b", "$", "2", "y", "$">> } }

BcryptGood == UNION { BcryptForms(pw, << "a", "b", "c", "d", "e", "f", "g", "h", "i", "j", "k", "l", "m", "n", "o", "p", "q", "r", "s", "t", "u", "v" >>) : pw \in Passwords }

BcryptMalformed ==
    LET body == BcryptBody(<<"a">>, << "a", "b", "c", "d", "e", "f", "g", "h", "i", "j", "k", "l", "m", "n", "o", "p", "q", "r", "s", "t", "u", "v" >>)
    IN  { <<"$", "2">>, <<"$", "2", "b", "$">>,
          <<"$", "2", "b", "$">> \o Slice(body, 0, 10),
          <<"$", "2", "b", "$", "0", "3", "$">> \o SliceFrom(body, 3),
          <<"$", "2", "b", "$", "9", "9", "$">> \o SliceFrom(body, 3),
          <<"$", "2", "b", "$", "x", "x", "$">> \o SliceFrom(body, 3),
          <<"$", "2", "z", "$">> \o body }

Md5Hex(pw) == HexDigest(Md5(Utf8(pw)))

LegacyMd5Good == UNION { { Md5Hex(pw), Upper(Md5Hex(pw)) } : pw \in Passwords }

\* hex strings of 31 and 33 characters, a 64-character digest, other text
Unrecognized ==
    UNION { { Slice(Md5Hex(pw), 0, 31), Md5Hex(pw) \o <<"0">>, Md5Hex(pw) \o Md5Hex(pw) } :
            pw \in Passwords }
    \cup { <<"*", "0">>, <<"a", "b", "c", "d", "e", "f", "g", "h", "i", "j">>,
           <<"$">>, <<"P", "$", "B">>, Append(Slice(Md5Hex(<<"a">>), 0, 31), "g") }

StoredHashes ==
    { << >> } \cup PhpassGood \cup PhpassMalformed \cup BcryptGood \cup BcryptMalformed
    \cup LegacyMd5Good \cup Unrecognized

-----------------------------------------------------------------------------
(* The credential functions applied to one password and one stored hash.   *)

NoCall == [op |-> "none", ret |-> Ret(FALSE)]

\* no request has been served
NoResponse ==
    [op |-> "none", status |-> 0, detail |-> "", user |-> << >>,
     tokens |-> << >>, credentials |-> << >>, wrote |-> << >>,
     tasks |-> << >>]

InitVerify ==
    /\ password \in Passwords
    /\ stored_hash \in StoredHashes
    /\ hashed_from = << >>
    /\ call = NoCall
    /\ users = << >>
    /\ now = 0
    /\ advances = 0
    /\ issued = {}
    /\ response = NoResponse

\* a call is made on the inputs as drawn, or on a hash fresh from hash_password
Callable == call.op \in {"none", "hash_password"}

VerifyPhpassPassword ==
    /\ Callable
    /\ call' = [op |-> "verify_phpass_password",
                ret |-> verify_phpass_password(password, stored_hash)]
    /\ UNCHANGED <<password, stored_hash, hashed_from>>
    /\ UNCHANGED svcVars

VerifyBcryptPassword ==
    /\ Callable
    /\ call' = [op |-> "verify_bcrypt_password",
                ret |-> verify_bcrypt_password(password, stored_hash)]
    /\ UNCHANGED <<password, stored_hash, hashed_from>>
    /\ UNCHANGED svcVars

VerifyPassword ==
    /\ Callable
    /\ call' = [op |-> "verify_password", ret |-> verify_password(password, stored_hash)]
    /\ UNCHANGED <<password, stored_hash, hashed_from>>
    /\ UNCHANGED svcVars

\* hash_password(password) for a new credential, which replaces the stored one
HashPassword ==
    /\ call.op = "none"
    /\ hashed_from = << >>
    /\ \E raw_salt \in BcryptSalts :
        LET hashed == hash_password(password, raw_salt)
        IN  /\ call' = [op |-> "hash_password", ret |-> hashed]
            /\ stored_hash' = IF hashed.exc = "none" THEN hashed.val ELSE stored_hash
            /\ hashed_from' = << password >>
    /\ UNCHANGED password
    /\ UNCHANGED svcVars

NextVerify ==
    \/ VerifyPhpassPassword
    \/ VerifyBcryptPassword
    \/ VerifyPassword
    \/ HashPassword

SpecVerify == InitVerify /\ [][NextVerify]_vars

-----------------------------------------------------------------------------
(* Claims about the credential functions (SpecVerify).                     *)

HexChars ==
    { "0", "1", "2", "3", "4", "5", "6", "7", "8", "9",
      "a", "b", "c", "d", "e", "f", "A", "B", "C", "D", "E", "F" }

AllHex(s) == \A i \in 1..Len(s) : s[i] \in HexChars

PhpassPrefixed(sh) ==
    StartsWith(sh, <<"$", "P", "$">>) \/ StartsWith(sh, <<"$", "H", "$">>)

\* empty, or neither "$P$"/"$H$"-prefixed, "$2"-prefixed nor 32 hex characters
UnrecognizedShape(sh) ==
    \/ Len(sh) = 0
    \/ /\ ~PhpassPrefixed(sh)
       /\ ~StartsWith(sh, <<"$", "2">>)
       /\ ~(Len(sh) = 32 /\ AllHex(sh))

\* C1: verify_password returns false, for every password and the empty one
\* too, when the stored hash is empty or of none of the three recognized
\* shapes.
C1_UnrecognizedNeverAccepts ==
    (call.op = "verify_password" /\ UnrecognizedShape(stored_hash))
        => call.ret = Ret(FALSE)

\* the empty password was tried against a 64-character hex digest
C1_Witness ==
    /\ call.op = "verify_password"
    /\ password = << >>
    /\ Len(stored_hash) = 64
    /\ UnrecognizedShape(stored_hash)

\* the four stored forms of one bcrypt cost, salt and digest
FourForms(pw) ==
    LET body == BcryptBody(pw, <<"a", "b", "c", "d", "e", "f", "g", "h", "i", "j", "k",
                                 "l", "m", "n", "o", "p", "q", "r", "s", "t", "u", "v">>)
    IN  { <<"$", "2", "y", "$">> \o body, <<"$", "2", "b", "$">> \o body,
          <<"$", "w", "p", "$", "2", "y", "$">> \o body,
          <<"$", "2", "b", "$", "2", "y", "$">> \o body }

FourFormsOf == [pw \in Passwords |-> FourForms(pw)]

\* C2: verify_password gives the same result for the forms $2y$10$<body>,
\* $2b$10$<body>, $wp$2y$10$<body> and $2b$2y$10$<body> of one bcrypt hash:
\* true for the password that was hashed, false for any other.
C2_BcryptPrefixEquivalence ==
    \A pw \in Passwords :
        (call.op = "verify_password" /\ stored_hash \in FourFormsOf[pw])
            => call.ret = Ret(pw = password)

\* C3: verify_phpass_password, and verify_password dispatching to it, return
\* false and raise nothing for a $P$ or $H$ hash shorter than 12 characters.
C3_ShortPhpassIsFalse ==
    (/\ call.op \in {"verify_phpass_password", "verify_password"}
     /\ PhpassPrefixed(stored_hash)
     /\ Len(stored_hash) < 12)
        => call.ret = Ret(FALSE)

\* the phpass hashes of the model with the password each was built from
PhpassBuilt ==
    { [pw |-> pw, hash |-> WordPressPhpassHash(id, pw, PhpassSalt, L)] :
        id \in {"P"}, pw \in Passwords, L \in 7..MaxCountLog2 }
    \cup { [pw |-> pw, hash |-> WordPressPhpassHash("H", pw, PhpassSalt, 7)] :
            pw \in Passwords }

\* C4: verify_phpass_password(P, H) is true when H is the phpass hash built
\* from P, an 8-character salt and an iteration exponent of 7 or more, and
\* false when H was built from another password with that salt and exponent.
C4_PhpassRoundTrip ==
    \A built \in PhpassBuilt :
        (call.op = "verify_phpass_password" /\ stored_hash = built.hash)
            => call.ret = Ret(built.pw = password)

\* a non-empty password verified against its own hash of 2^MaxCountLog2 rounds
C4_Witness ==
    /\ call.op = "verify_phpass_password"
    /\ Len(password) > 0
    /\ stored_hash = WordPressPhpassHash("P", password, PhpassSalt, MaxCountLog2)
    /\ call.ret = Ret(TRUE)

SameIgnoringCase(x, y) ==
    /\ Len(x) = Len(y)
    /\ \A i \in 1..Len(x) : UpperChar(x[i]) = UpperChar(y[i])

\* C10: with a stored hash of exactly 32 hex characters verify_password is
\* true iff the hex MD5 of the password equals it case-insensitively; a hex
\* string of 31 or 33 characters never matches.
C10_LegacyMd5 ==
    call.op = "verify_password" =>
        /\ (Len(stored_hash) = 32 /\ AllHex(stored_hash))
              => call.ret = Ret(SameIgnoringCase(Md5Hex(password), stored_hash))
        /\ (Len(stored_hash) \in {31, 33} /\ AllHex(stored_hash))
              => call.ret = Ret(FALSE)

\* an upper-case digest matched the password it is the MD5 of
C10_Witness ==
    /\ call.op = "verify_password"
    /\ Len(stored_hash) = 32
    /\ stored_hash = Upper(Md5Hex(password))
    /\ stored_hash # Md5Hex(password)
    /\ call.ret = Ret(TRUE)

-----------------------------------------------------------------------------
(* Session tokens, app/core/security.py and app/core/config.py.            *)
(* python-jose is a library: a compact JWS is three segments, a header, a  *)
(* claims set and an HMAC over both.  The HMAC is the term Sign(...): only *)
(* the holder of the key can build it, and it matches nothing else.        *)

\* the clock counts ticks; a datetime is a number of ticks
TicksPerSecond == 2

JWT_SECRET_KEY == "mrpfx_secret_key_change_me_in_production"
JWT_ALGORITHM == "HS256"
ACCESS_TOKEN_EXPIRE_MINUTES == 1080
REFRESH_TOKEN_EXPIRE_DAYS == 7

\* timedelta(minutes=m), timedelta(days=d)
Minutes(m) == m * 60 * TicksPerSecond
Days(d) == d * 24 * 60 * 60 * TicksPerSecond

\* calendar.timegm(dt.utctimetuple()): whole seconds, the fraction is dropped
Timegm(dt) == dt \div TicksPerSecond

\* d.copy() followed by d.update({k: v})
DictUpdate(d, k, v) == [x \in (DOMAIN d) \cup {k} |-> IF x = k THEN v ELSE d[x]]

Sign(key, header, claims) == [key |-> key, over |-> << header, claims >>]

\* jwt.encode(claims, key, algorithm): a datetime exp becomes whole seconds
JoseEncode(claims, key, algorithm) ==
    LET header == [alg |-> algorithm, typ |-> "JWT"]
        payload == IF "exp" \in DOMAIN claims
                   THEN DictUpdate(claims, "exp", Timegm(claims.exp))
                   ELSE claims
    IN  << header, payload, Sign(key, header, payload) >>

\* jwt.decode(token, key, algorithms) at the time the clock shows
JoseDecode(token, key, algorithms, clock) ==
    IF Len(token) # 3 THEN Raise("JWTError", << >>)
    ELSE IF token[1].alg \notin algorithms THEN Raise("JWTError", << >>)
    ELSE IF token[3] # Sign(key, token[1], token[2]) THEN Raise("JWTError", << >>)
    ELSE IF "exp" \in DOMAIN token[2] /\ token[2].exp < Timegm(clock)
         THEN Raise("ExpiredSignatureError", << >>)
    ELSE Ret(<< token[2] >>)

\* isinstance(exception, JWTError)
IsJWTError(exc) == exc \in {"JWTError", "ExpiredSignatureError", "JWTClaimsError"}

\* the mutant of create_access_token: the refresh lifetime is used
create_access_token_refresh_ttl(data, expires_delta, clock) ==
    LET expire == IF expires_delta # << >> /\ expires_delta[1] # 0
                  THEN clock + expires_delta[1]
                  ELSE clock + Days(REFRESH_TOKEN_EXPIRE_DAYS)
    IN  JoseEncode(DictUpdate(DictUpdate(data, "exp", expire), "type", "access"),
                   JWT_SECRET_KEY, JWT_ALGORITHM)

\* expires_delta is << >> for None, else << ticks >>
create_access_token(data, expires_delta, clock) ==
    LET expire == IF expires_delta # << >> /\ expires_delta[1] # 0
                  THEN clock + expires_delta[1]
                  ELSE clock + Minutes(ACCESS_TOKEN_EXPIRE_MINUTES)
    IN  JoseEncode(DictUpdate(DictUpdate(data, "exp", expire), "type", "access"),
                   JWT_SECRET_KEY, JWT_ALGORITHM)

\* the mutant of create_refresh_token: signed with another algorithm
create_refresh_token_other_algorithm(data, clock) ==
    LET expire == clock + Days(REFRESH_TOKEN_EXPIRE_DAYS)
    IN  JoseEncode(DictUpdate(DictUpdate(data, "exp", expire), "type", "refresh"),
                   JWT_SECRET_KEY, "HS512")

create_refresh_token(data, clock) ==
    LET expire == clock + Days(REFRESH_TOKEN_EXPIRE_DAYS)
    IN  JoseEncode(DictUpdate(DictUpdate(data, "exp", expire), "type", "refresh"),
                   JWT_SECRET_KEY, JWT_ALGORITHM)

\* the mutant of decode_token: only the expiry error is caught
decode_token_expiry_only(token, clock) ==
    LET r == JoseDecode(token, JWT_SECRET_KEY, {JWT_ALGORITHM}, clock)
    IN  IF r.exc = "none" THEN r
        ELSE IF r.exc = "ExpiredSignatureError" THEN Ret(<< >>)
        ELSE r

\* the payload as << claims >>, or << >> for None
decode_token(token, clock) ==
    LET r == JoseDecode(token, JWT_SECRET_KEY, {JWT_ALGORITHM}, clock)
    IN  IF r.exc = "none" THEN r
        ELSE IF IsJWTError(r.exc) THEN Ret(<< >>)
        ELSE r

-----------------------------------------------------------------------------
(* The users table and its repositories, app/repo/user.py and              *)
(* app/repo/wordpress/user.py.  An Optional value is << >> for None and    *)
(* << v >> otherwise.                                                      *)

UserRow(login, email, pass, status, key) ==
    [user_login |-> login, user_email |-> email, user_pass |-> pass,
     user_status |-> status, user_activation_key |-> key]

\* result.first() of a select: the row with the lowest ID
FirstOf(ids) ==
    IF ids = {} THEN << >> ELSE << CHOOSE i \in ids : \A j \in ids : i <= j >>

get_by_id(table, user_id) ==
    FirstOf({i \in DOMAIN table : i = user_id})

get_by_email(table, email) ==
    FirstOf({i \in DOMAIN table : table[i].user_email = email})

get_by_login(table, login) ==
    FirstOf({i \in DOMAIN table : table[i].user_login = login})

get_by_email_or_login(table, identifier) ==
    FirstOf({i \in DOMAIN table : \/ table[i].user_email = identifier
                                    \/ table[i].user_login = identifier})

exists_by_email(table, email) == get_by_email(table, email) # << >>
exists_by_login(table, login) == get_by_login(table, login) # << >>

\* the autoincrement key of a new row
NextId(table) ==
    IF DOMAIN table = {} THEN 1
    ELSE 1 + CHOOSE i \in DOMAIN table : \A j \in DOMAIN table : j <= i

\* session.add(row); commit()
create(table, row) ==
    LET n == NextId(table)
    IN  [i \in (DOMAIN table) \cup {n} |-> IF i = n THEN row ELSE table[i]]

update_password(table, id, hashed_password) ==
    [table EXCEPT ![id].user_pass = hashed_password]

set_activation_key(table, id, activation_key) ==
    [table EXCEPT ![id].user_activation_key = activation_key]

\* WPUserRepository.update: setattr for every field the request sets
update(table, id, update_data) ==
    [table EXCEPT ![id] =
        [f \in DOMAIN table[id] |->
            IF f \in DOMAIN update_data THEN update_data[f] ELSE table[id][f]]]

\* str(user.ID)
RECURSIVE Str(_)
Str(n) == IF n < 10 THEN << Digits[n + 1] >>
          ELSE Append(Str(n \div 10), Digits[(n % 10) + 1])

-----------------------------------------------------------------------------
(* What a request gets back.                                               *)

\* the handler returned: the user it resolved, the tokens it made and the
\* user_pass values it wrote
Returned(op, credentials, status, user, tokens, wrote) ==
    [op |-> op, status |-> status, detail |-> "", user |-> user,
     tokens |-> tokens, credentials |-> credentials, wrote |-> wrote,
     tasks |-> << >>]

\* raise HTTPException(status_code, detail)
HTTPException(op, credentials, status_code, detail) ==
    [op |-> op, status |-> status_code, detail |-> detail, user |-> << >>,
     tokens |-> << >>, credentials |-> credentials, wrote |-> << >>,
     tasks |-> << >>]

\* an exception no handler catches: the server answers 500
Unhandled(op, credentials, exc) ==
    HTTPException(op, credentials, 500, exc)

-----------------------------------------------------------------------------
(* The authentication dependencies, app/dependencies/auth.py.              *)

\* payload.get(key): << >> when the claim is absent
DictGet(d, key) == IF key \in DOMAIN d THEN << d[key] >> ELSE << >>

\* not payload: None or an empty dict
Falsy(payload) == payload = << >> \/ DOMAIN payload[1] = {}

\* the mutant of get_current_user: the type claim is not looked at
get_current_user_any_type(credentials, table, clock) ==
    LET op == "get_current_user"
        decoded == decode_token(credentials, clock)
    IN  IF credentials = << >>
        THEN HTTPException(op, credentials, 401, "Missing authentication token")
        ELSE IF decoded.exc # "none" THEN Unhandled(op, credentials, decoded.exc)
        ELSE IF Falsy(decoded.val)
        THEN HTTPException(op, credentials, 401, "Invalid or expired token")
        ELSE
        LET user_id == DictGet(decoded.val[1], "sub")
        IN  IF user_id = << >> \/ user_id[1] = << >>
            THEN HTTPException(op, credentials, 401, "Invalid token payload")
            ELSE IF ParseInt(user_id[1], 1, 0) < 0
            THEN Unhandled(op, credentials, "ValueError")
            ELSE
            LET user == get_by_id(table, ParseInt(user_id[1], 1, 0))
            IN  IF user = << >>
                THEN HTTPException(op, credentials, 401, "User not found")
                ELSE Returned(op, credentials, 200, user, << >>, << >>)

\* credentials is << >> when the request carries no bearer token
get_current_user(credentials, table, clock) ==
    LET op == "get_current_user"
        decoded == decode_token(credentials, clock)
    IN  IF credentials = << >>
        THEN HTTPException(op, credentials, 401, "Missing authentication token")
        ELSE IF decoded.exc # "none" THEN Unhandled(op, credentials, decoded.exc)
        ELSE IF Falsy(decoded.val)
        THEN HTTPException(op, credentials, 401, "Invalid or expired token")
        ELSE IF DictGet(decoded.val[1], "type") # << "access" >>
        THEN HTTPException(op, credentials, 401, "Invalid token type")
        ELSE
        LET user_id == DictGet(decoded.val[1], "sub")
        IN  IF user_id = << >> \/ user_id[1] = << >>
            THEN HTTPException(op, credentials, 401, "Invalid token payload")
            ELSE IF ParseInt(user_id[1], 1, 0) < 0
            THEN Unhandled(op, credentials, "ValueError")
            ELSE
            LET user == get_by_id(table, ParseInt(user_id[1], 1, 0))
            IN  IF user = << >>
                THEN HTTPException(op, credentials, 401, "User not found")
                ELSE Returned(op, credentials, 200, user, << >>, << >>)

get_current_active_user(credentials, table, clock) ==
    LET current == get_current_user(credentials, table, clock)
    IN  IF current.status # 200 THEN current
        ELSE IF table[current.user[1]].user_status \notin {0, 1}
        THEN HTTPException("get_current_user", credentials, 403,
                           "User is not active or verified")
        ELSE current

\* returns the user or None, never an HTTP error of its own
get_optional_user(credentials, table, clock) ==
    LET op == "get_optional_user"
        decoded == decode_token(credentials, clock)
    IN  IF credentials = << >> THEN Returned(op, credentials, 200, << >>, << >>, << >>)
        ELSE IF decoded.exc # "none" THEN Unhandled(op, credentials, decoded.exc)
        ELSE IF Falsy(decoded.val) \/ DictGet(decoded.val[1], "type") # << "access" >>
        THEN Returned(op, credentials, 200, << >>, << >>, << >>)
        ELSE
        LET user_id == DictGet(decoded.val[1], "sub")
        IN  IF user_id = << >> \/ user_id[1] = << >>
            THEN Returned(op, credentials, 200, << >>, << >>, << >>)
            ELSE IF ParseInt(user_id[1], 1, 0) < 0
            THEN Unhandled(op, credentials, "ValueError")
            ELSE Returned(op, credentials, 200,
                          get_by_id(table, ParseInt(user_id[1], 1, 0)), << >>, << >>)

-----------------------------------------------------------------------------
(* AuthService, app/service/auth.py.  A method returns the response, the   *)
(* users table it leaves and the tokens it made.                           *)

\* passwords that requests to the service carry
ServicePasswords == { <<"a">>, <<"B">> }

\* user_pass of the imported WordPress account, whose password is "a"
ImportedHashes ==
    LET body == BcryptBody(<<"a">>, CHOOSE salt \in BcryptSalts : salt[1] = "a")
    IN  { WordPressPhpassHash("P", <<"a">>, PhpassSalt, 7),
          <<"$", "P", "$">>,
          <<"$", "w", "p", "$", "2", "y", "$">> \o body,
          Md5Hex(<<"a">>) }

\* the stored hashes verify_password meets most: the imported ones and the
\* ones hash_password makes for the service's passwords
TabledHashes ==
    ImportedHashes
    \cup { hash_password(p, raw_salt).val : p \in ServicePasswords, raw_salt \in BcryptSalts }

\* verify_password on those hashes, computed once
VerifyTable ==
    { << p, h, verify_password(p, h) >> : p \in ServicePasswords, h \in TabledHashes }

VerifyStored(p, h) ==
    IF p \in ServicePasswords /\ h \in TabledHashes
    THEN (CHOOSE t \in VerifyTable : t[1] = p /\ t[2] = h)[3]
    ELSE verify_password(p, h)

\* background_tasks.add_task(send_..., email=...)
Task(name, email, secret) == [task |-> name, email |-> email, secret |-> secret]

Result(rsp, table, made) == [rsp |-> rsp, users |-> table, made |-> made]

\* the ledger entry of a token the service made
Made(token, fn, sub, clock) == [token |-> token, fn |-> fn, sub |-> sub, at |-> clock]

\* create_access_token(token_data), create_refresh_token(token_data)
TokenPair(op, credentials, token_data, table, clock) ==
    LET access_token == create_access_token(token_data, << >>, clock)
        refresh_token == create_refresh_token(token_data, clock)
    IN  Result(Returned(op, credentials, 200, << >>,
                        << access_token, refresh_token >>, << >>),
               table,
               { Made(access_token, "create_access_token", token_data.sub, clock),
                 Made(refresh_token, "create_refresh_token", token_data.sub, clock) })

signup(request, verification_code, raw_salt, table) ==
    IF exists_by_email(table, request.email)
    THEN Result(HTTPException("signup", << >>, 409, "Email already registered"), table, {})
    ELSE IF exists_by_login(table, request.username)
    THEN Result(HTTPException("signup", << >>, 409, "Username already taken"), table, {})
    ELSE
    LET hashed_password == hash_password(request.password, raw_salt).val
        row == UserRow(request.username, request.email, hashed_password, 0,
                       << verification_code >>)
        rsp == Returned("signup", << >>, 200, << NextId(table) >>, << >>,
                        << hashed_password >>)
    IN  Result([rsp EXCEPT !.tasks =
                   << Task("send_verification_email", request.email, verification_code) >>],
               create(table, row), {})

login(request, table, clock) ==
    LET user == get_by_email_or_login(table, request.login)
    IN  IF user = << >>
        THEN Result(HTTPException("login", << >>, 401, "Invalid credentials"), table, {})
        ELSE
        LET verified == VerifyStored(request.password, table[user[1]].user_pass)
        IN  IF verified.exc # "none"
            THEN Result(Unhandled("login", << >>, verified.exc), table, {})
            ELSE IF ~verified.val
            THEN Result(HTTPException("login", << >>, 401, "Invalid credentials"), table, {})
            ELSE TokenPair("login", << >>,
                           [sub |-> Str(user[1]), email |-> table[user[1]].user_email],
                           table, clock)

\* the mutant of forgot_password: an unknown email is answered with 404
forgot_password_not_found(email, reset_token, table) ==
    LET user == get_by_email(table, email)
        rsp == Returned("forgot_password", << >>, 200, << >>, << >>, << >>)
    IN  IF user = << >>
        THEN Result(HTTPException("forgot_password", << >>, 404, "User not found"),
                    table, {})
        ELSE Result([rsp EXCEPT !.tasks =
                        << Task("send_password_reset_email", email, reset_token) >>],
                    set_activation_key(table, user[1], << reset_token >>), {})

forgot_password(email, reset_token, table) ==
    LET user == get_by_email(table, email)
        rsp == Returned("forgot_password", << >>, 200, << >>, << >>, << >>)
    IN  IF user = << >> THEN Result(rsp, table, {})
        ELSE Result([rsp EXCEPT !.tasks =
                        << Task("send_password_reset_email", email, reset_token) >>],
                    set_activation_key(table, user[1], << reset_token >>), {})

reset_password(email, token, new_password, raw_salt, table) ==
    LET user == get_by_email(table, email)
    IN  IF user = << >>
        THEN Result(HTTPException("reset_password", << >>, 404, "User not found"), table, {})
        ELSE
        LET key == table[user[1]].user_activation_key
        IN  IF key = << >> \/ key[1] = "" \/ key[1] # token
            THEN Result(HTTPException("reset_password", << >>, 400,
                                      "Invalid or expired reset token"), table, {})
            ELSE
            LET hashed_password == hash_password(new_password, raw_salt).val
            IN  Result(Returned("reset_password", << >>, 200, user, << >>,
                                << hashed_password >>),
                       set_activation_key(update_password(table, user[1], hashed_password),
                                          user[1], << >>),
                       {})

refresh_token(token, table, clock) ==
    LET op == "refresh_token"
        decoded == decode_token(token, clock)
    IN  IF decoded.exc # "none" THEN Result(Unhandled(op, token, decoded.exc), table, {})
        ELSE IF Falsy(decoded.val) \/ DictGet(decoded.val[1], "type") # << "refresh" >>
        THEN Result(HTTPException(op, token, 401, "Invalid refresh token"), table, {})
        ELSE
        LET user_id == DictGet(decoded.val[1], "sub")
        IN  IF user_id = << >> \/ user_id[1] = << >>
            THEN Result(HTTPException(op, token, 401, "Invalid refresh token"), table, {})
            ELSE IF ParseInt(user_id[1], 1, 0) < 0
            THEN Result(Unhandled(op, token, "ValueError"), table, {})
            ELSE
            LET user == get_by_id(table, ParseInt(user_id[1], 1, 0))
            IN  IF user = << >>
                THEN Result(HTTPException(op, token, 401, "User not found"), table, {})
                ELSE TokenPair(op, token,
                               [sub |-> Str(user[1]), email |-> table[user[1]].user_email],
                               table, clock)

\* user is the ID of the row the route resolved from the bearer token
change_password(user, current_password, new_password, raw_salt, credentials, table) ==
    LET verified == VerifyStored(current_password, table[user].user_pass)
    IN  IF verified.exc # "none"
        THEN Result(Unhandled("change_password", credentials, verified.exc), table, {})
        ELSE IF ~verified.val
        THEN Result(HTTPException("change_password", credentials, 400,
                                  "Current password is incorrect"), table, {})
        ELSE
        LET hashed_password == hash_password(new_password, raw_salt).val
        IN  Result(Returned("change_password", credentials, 200, << user >>, << >>,
                            << hashed_password >>),
                   update_password(table, user, hashed_password), {})

\* POST /auth/change-password, app/v1/api/auth.py
change_password_route(credentials, request, raw_salt, table, clock) ==
    LET current_user == get_current_active_user(credentials, table, clock)
    IN  IF current_user.status # 200
        THEN Result([current_user EXCEPT !.op = "change_password"], table, {})
        ELSE change_password(current_user.user[1], request.current_password,
                             request.new_password, raw_salt, credentials, table)

-----------------------------------------------------------------------------
(* The WordPress users routes, app/v1/api/wordpress/users.py.  They take   *)
(* no credentials.                                                         *)

\* POST /wordpress/users/
create_user(user_data, table) ==
    IF get_by_login(table, user_data.user_login) # << >>
    THEN Result(HTTPException("create_user", << >>, 400, "Username already exists"),
                table, {})
    ELSE Result(Returned("create_user", << >>, 200, << NextId(table) >>, << >>,
                         << user_data.user_pass >>),
                create(table, UserRow(user_data.user_login, user_data.user_email,
                                      user_data.user_pass, user_data.user_status,
                                      << "" >>)),
                {})

\* PUT /wordpress/users/{user_id}; user_data holds the fields the request sets
update_user(user_id, user_data, table) ==
    LET user == get_by_id(table, user_id)
    IN  IF user = << >>
        THEN Result(HTTPException("update_user", << >>, 404, "User not found"), table, {})
        ELSE Result(Returned("update_user", << >>, 200, user, << >>,
                             IF "user_pass" \in DOMAIN user_data
                             THEN << user_data.user_pass >> ELSE << >>),
                    update(table, user[1], user_data), {})

-----------------------------------------------------------------------------
(* The backend serving requests: one imported WordPress account, clients   *)
(* that hold the tokens they were given, and callers that present altered, *)
(* forged and malformed ones.                                              *)

\* at most MaxTokens tokens handed out and MaxAdvances clock moves
MaxTokens == 4
MaxAdvances == 3

Emails == { "old@x", "new@x" }
Usernames == { "old", "new" }
Identifiers == { "old", "new@x", "ghost" }

\* secrets.choice / secrets.token_urlsafe draw these
VerificationCodes == { "123456" }
ResetTokens == { "Zm9yZ290" }

\* the password an account changes to
NewPasswords == { <<"B">> }

\* the salt bcrypt.gensalt draws while the service runs
ServiceSalts == { CHOOSE salt \in BcryptSalts : salt[1] = "A" }

\* every ID a request may name: the rows there can be, and one more
UserIds == 1..(Cardinality(Usernames) + 1)

\* a token whose payload was changed after signing
Tampered(token) ==
    { << token[1], DictUpdate(token[2], "type", t), token[3] >> : t \in {"access", "refresh"} }
    \cup { << token[1], DictUpdate(token[2], "exp", token[2].exp + 1), token[3] >> }

\* tokens signed with a key that is not the server's, unsigned and malformed ones
Forged(clock) ==
    LET claims == [sub |-> <<"1">>, email |-> "old@x",
                   exp |-> Timegm(clock + Minutes(1)), type |-> "access"]
    IN  { JoseEncode(claims, "another key", JWT_ALGORITHM),
          << [alg |-> "none", typ |-> "JWT"], claims,
             Sign("", [alg |-> "none", typ |-> "JWT"], claims) >>,
          << "not a token" >> }

\* what a bearer header or a refresh request may carry
Presentable(ledger, clock) ==
    { m.token : m \in ledger }
    \cup UNION { Tampered(m.token) : m \in ledger }
    \cup Forged(clock)

InitService ==
    /\ password = << >>
    /\ stored_hash = << >>
    /\ hashed_from = << >>
    /\ call = NoCall
    /\ \E h \in ImportedHashes, st \in {0, 1} :
          users = [i \in {1} |-> UserRow("old", "old@x", h, st, << "" >>)]
    /\ now = 0
    /\ advances = 0
    /\ issued = {}
    /\ response = NoResponse

\* the request is served: the table, the ledger and the response change
Serve(r) ==
    /\ Cardinality(issued \cup r.made) <= MaxTokens
    /\ users' = r.users
    /\ issued' = issued \cup r.made
    /\ response' = r.rsp
    /\ UNCHANGED <<now, advances>>
    /\ UNCHANGED credVars

Signup ==
    \E email \in Emails, username \in Usernames, pw \in ServicePasswords,
       code \in VerificationCodes, raw_salt \in ServiceSalts :
        Serve(signup([email |-> email, username |-> username, password |-> pw],
                     code, raw_salt, users))

Login ==
    \E identifier \in Identifiers, pw \in ServicePasswords :
        Serve(login([login |-> identifier, password |-> pw], users, now))

RefreshToken ==
    \E token \in Presentable(issued, now) :
        Serve(refresh_token(token, users, now))

GetCurrentUser ==
    \E credentials \in {<< >>} \cup Presentable(issued, now) :
        Serve(Result(get_current_user(credentials, users, now), users, {}))

GetOptionalUser ==
    \E credentials \in {<< >>} \cup Presentable(issued, now) :
        Serve(Result(get_optional_user(credentials, users, now), users, {}))

ForgotPassword ==
    \E email \in Emails, reset_token \in ResetTokens :
        Serve(forgot_password(email, reset_token, users))

ResetPassword ==
    \E email \in Emails, token \in ResetTokens \cup VerificationCodes \cup {""},
       pw \in NewPasswords, raw_salt \in ServiceSalts :
        Serve(reset_password(email, token, pw, raw_salt, users))

ChangePassword ==
    \E credentials \in {<< >>} \cup { m.token : m \in issued } \cup Forged(now),
       current \in ServicePasswords, new \in NewPasswords, raw_salt \in ServiceSalts :
        Serve(change_password_route(credentials,
                                    [current_password |-> current, new_password |-> new],
                                    raw_salt, users, now))

WpCreateUser ==
    \E username \in Usernames, email \in Emails, pw \in ServicePasswords :
        Serve(create_user([user_login |-> username, user_email |-> email,
                           user_pass |-> pw, user_status |-> 0], users))

WpUpdateUser ==
    \E user_id \in UserIds, pw \in ServicePasswords :
        Serve(update_user(user_id, [user_pass |-> pw], users))

\* time passes between requests
Advance ==
    /\ advances < MaxAdvances
    /\ \E d \in { 1, Minutes(ACCESS_TOKEN_EXPIRE_MINUTES), Days(REFRESH_TOKEN_EXPIRE_DAYS) } :
          now' = now + d
    /\ advances' = advances + 1
    /\ response' = NoResponse
    /\ UNCHANGED <<users, issued>>
    /\ UNCHANGED credVars

\* the token lifecycle: logins, refreshes, protected requests and the clock
NextTokens ==
    \/ Login
    \/ RefreshToken
    \/ GetCurrentUser
    \/ GetOptionalUser
    \/ Advance

SpecTokens == InitService /\ [][NextTokens]_vars

\* the accounts: every request that creates a user or writes a credential
NextAccounts ==
    \/ Signup
    \/ Login
    \/ ForgotPassword
    \/ ResetPassword
    \/ ChangePassword
    \/ WpCreateUser
    \/ WpUpdateUser

SpecAccounts == InitService /\ [][NextAccounts]_vars

-----------------------------------------------------------------------------
(* Claims about the tokens (SpecTokens).                                   *)

\* the library accepts the token now, and its type claim is kind
ValidOfType(token, kind) ==
    LET d == JoseDecode(token, JWT_SECRET_KEY, {JWT_ALGORITHM}, now)
    IN  d.exc = "none" /\ DictGet(d.val[1], "type") = << kind >>

\* C5: a correctly signed, unexpired token is accepted only for its own
\* kind: get_current_user and get_optional_user resolve no user from a
\* refresh token, and refresh_token makes no tokens from an access token.
C5_TokenKindsNotInterchangeable ==
    /\ ( /\ response.op \in {"get_current_user", "get_optional_user"}
         /\ ValidOfType(response.credentials, "refresh") )
          => /\ response.user = << >>
             /\ response.op = "get_current_user" => response.status = 401
    /\ ( /\ response.op = "refresh_token"
         /\ ValidOfType(response.credentials, "access") )
          => /\ response.status = 401
             /\ response.tokens = << >>

\* a valid refresh token was presented as a bearer token and turned away
C5_Witness ==
    /\ response.op = "get_current_user"
    /\ ValidOfType(response.credentials, "refresh")
    /\ response.status = 401
    /\ response.detail = "Invalid token type"

\* the access tokens create_access_token made, with subject and time of issue
AccessLedger == { m \in issued : m.fn = "create_access_token" }

DecodesTo(m) ==
    LET d == decode_token(m.token, now)
    IN  /\ d.exc = "none"
        /\ d.val # << >>
        /\ DictGet(d.val[1], "sub") = << m.sub >>
        /\ DictGet(d.val[1], "type") = << "access" >>

\* C6 as claimed: an access token decodes to its subject and type "access"
\* at every time before its TTL has elapsed, and to None at every time after.
C6_ExpiresWhenTtlElapsed ==
    \A m \in AccessLedger :
        /\ now < m.at + Minutes(ACCESS_TOKEN_EXPIRE_MINUTES) => DecodesTo(m)
        /\ now > m.at + Minutes(ACCESS_TOKEN_EXPIRE_MINUTES)
              => decode_token(m.token, now) = Ret(<< >>)

\* C6 as amended: an access token decodes to its subject and type "access"
\* at every time before its TTL has elapsed, and to None at every time one
\* second or more after it has elapsed.
C6_ExpiresWithinOneSecond ==
    \A m \in AccessLedger :
        /\ now < m.at + Minutes(ACCESS_TOKEN_EXPIRE_MINUTES) => DecodesTo(m)
        /\ now >= m.at + Minutes(ACCESS_TOKEN_EXPIRE_MINUTES) + TicksPerSecond
              => decode_token(m.token, now) = Ret(<< >>)

\* an access token, a second after its TTL, was presented and turned away
C6_Witness ==
    \E m \in AccessLedger :
        /\ now >= m.at + Minutes(ACCESS_TOKEN_EXPIRE_MINUTES) + TicksPerSecond
        /\ response.op = "get_current_user"
        /\ response.credentials = m.token
        /\ response.status = 401

\* tokens the service made that are past their exp
Expired == { m.token : m \in { x \in issued : x.token[2].exp < Timegm(now) } }

\* tokens the service made, changed after signing
Altered == UNION { Tampered(m.token) \ { m.token } : m \in issued }

\* C7: decode_token returns None and raises nothing for every token that is
\* expired, altered, signed with another key or not a JWT at all, and a
\* caller is told the same thing for each of them.
C7_DecodeFailureIsNone ==
    /\ \A token \in Expired \cup Altered \cup Forged(now) :
          decode_token(token, now) = Ret(<< >>)
    /\ ( /\ response.op = "get_current_user"
         /\ response.credentials \in Expired \cup Altered \cup Forged(now) )
          => /\ response.status = 401
             /\ response.detail = "Invalid or expired token"

\* an altered token was turned away while an expired one exists
C7_Witness ==
    /\ Expired # {}
    /\ response.op = "get_current_user"
    /\ response.credentials \in Altered
    /\ response.credentials \notin Expired
    /\ response.status = 401

-----------------------------------------------------------------------------
(* Claims about the accounts (SpecAccounts).                               *)

\* v is what hash_password returns for some password and some salt
IsHashPasswordOutput(v) ==
    \E p \in ServicePasswords, raw_salt \in BcryptSalts :
        v = hash_password(p, raw_salt).val

\* C8: every value a request writes into user_pass is an output of
\* hash_password; no request stores a caller-supplied string.
C8_OnlyHashPasswordOutputsStored ==
    response.wrote # << >> => IsHashPasswordOutput(response.wrote[1])

-----------------------------------------------------------------------------
(* More claims about the credential functions (SpecVerify).                *)

\* the characters that stand for an iteration exponent of 7..30
AcceptedCountChars == { ITOA64[k + 1] : k \in 7..30 }

\* C11: verify_phpass_password returns false, for every password, when the
\* character at index 3 of a phpass hash stands for an exponent below 7 or
\* above 30 or is no itoa64 character; _crypt_private then returns its "*0"
\* marker, which only the returns ahead of the MD5 loop produce.
C11_CountOutOfRangeIsFalse ==
    ( /\ call.op = "verify_phpass_password"
      /\ PhpassPrefixed(stored_hash)
      /\ Len(stored_hash) >= 4
      /\ stored_hash[4] \notin AcceptedCountChars )
        => /\ call.ret = Ret(FALSE)
           /\ _crypt_private(password, stored_hash) = Ret(<<"*", "0">>)

\* the hash of the password with its count character replaced by "T" (31)
C11_Witness ==
    /\ call.op = "verify_phpass_password"
    /\ password = <<"a">>
    /\ stored_hash = <<"$", "P", "$", "T">>
                     \o SliceFrom(WordPressPhpassHash("P", <<"a">>, PhpassSalt, 7), 4)
    /\ call.ret = Ret(FALSE)

-----------------------------------------------------------------------------
(* More claims about the tokens and the logins (SpecTokens).               *)

\* C12: a login that fails looks the same to the caller whatever the cause:
\* unknown user, wrong password, corrupt stored hash or unknown scheme all
\* give status 401 with the detail "Invalid credentials".
C12_LoginFailuresLookAlike ==
    (response.op = "login" /\ response.tokens = << >>)
        => /\ response.status = 401
           /\ response.detail = "Invalid credentials"

-----------------------------------------------------------------------------
(* create_access_token called directly, with and without a lifetime, as    *)
(* the clock moves.                                                        *)

\* the payloads and the lifetimes (ticks) the caller passes
TokenData == { [sub |-> <<"4", "2">>], [sub |-> <<"1">>, email |-> "old@x"] }
ExpiresDeltas == { << >>, << 0 >>, << 1 >>, << Minutes(15) >> }

InitIssue ==
    /\ password = << >>
    /\ stored_hash = << >>
    /\ hashed_from = << >>
    /\ call = NoCall
    /\ users = << >>
    /\ now = 0
    /\ advances = 0
    /\ issued = {}
    /\ response = NoResponse

CreateAccessToken ==
    /\ \E data \in TokenData, expires_delta \in ExpiresDeltas :
          call' = [op |-> "create_access_token",
                   ret |-> Ret(create_access_token(data, expires_delta, now)),
                   args |-> [data |-> data, expires_delta |-> expires_delta,
                             clock |-> now]]
    /\ UNCHANGED <<password, stored_hash, hashed_from>>
    /\ UNCHANGED svcVars

NextIssue ==
    \/ CreateAccessToken
    \/ Advance

SpecIssue == InitIssue /\ [][NextIssue]_vars

\* C13: create_access_token embeds exp = now + ttl for every ttl it is
\* given, a zero ttl included, and the configured lifetime only when it is
\* given none.
C13_ExplicitTtlIsUsed ==
    call.op = "create_access_token" =>
        LET ttl == IF call.args.expires_delta = << >>
                   THEN Minutes(ACCESS_TOKEN_EXPIRE_MINUTES)
                   ELSE call.args.expires_delta[1]
        IN  call.ret.val[2].exp = Timegm(call.args.clock + ttl)

-----------------------------------------------------------------------------
(* Sessions that outlive credential changes: one account logs in, changes  *)
(* and resets its password and refreshes its tokens while time passes.     *)

\* the imported account has a legacy MD5 credential
InitSessions ==
    /\ InitService
    /\ users[1].user_pass = Md5Hex(<<"a">>)
    /\ users[1].user_status = 0

NextSessions ==
    \/ Login
    \/ RefreshToken
    \/ ChangePassword
    \/ ForgotPassword
    \/ ResetPassword
    \/ Advance

SpecSessions == InitSessions /\ [][NextSessions]_vars

\* tokens the service made that have not reached their exp
Unexpired == { m \in issued : m.token[2].exp >= Timegm(now) }

\* C14: expiry is the only way a token stops being valid: every token the
\* service made that has not reached its exp still decodes to its claims,
\* and such a refresh token is still accepted, whatever logins, refreshes,
\* password changes and password resets happened since it was made.
C14_OnlyExpiryEndsAToken ==
    /\ \A m \in Unexpired : decode_token(m.token, now) = Ret(<< m.token[2] >>)
    /\ ( /\ response.op = "refresh_token"
         /\ \E m \in Unexpired : /\ m.fn = "create_refresh_token"
                                 /\ m.token = response.credentials )
          => response.status = 200

\* the password was just changed, after a login and a refresh at another
\* time, and a refresh token made before still decodes
C14_Witness ==
    /\ response.op = "change_password"
    /\ response.status = 200
    /\ \E m \in Unexpired, n \in issued :
          /\ m.fn = "create_refresh_token"
          /\ m.at < now
          /\ n.at # m.at
          /\ decode_token(m.token, now) = Ret(<< m.token[2] >>)

-----------------------------------------------------------------------------
(* Administrators and account status: AuthService.admin_login and the      *)
(* get_current_active_user dependency, served next to login.               *)

\* the mutant of admin_login: the user_status check is left out
admin_login_any_status(request, table, clock) ==
    LET user == get_by_email_or_login(table, request.login)
    IN  IF user = << >>
        THEN Result(HTTPException("admin_login", << >>, 401, "Invalid credentials"), table, {})
        ELSE
        LET verified == VerifyStored(request.password, table[user[1]].user_pass)
        IN  IF verified.exc # "none"
            THEN Result(Unhandled("admin_login", << >>, verified.exc), table, {})
            ELSE IF ~verified.val
            THEN Result(HTTPException("admin_login", << >>, 401, "Invalid credentials"), table, {})
            ELSE TokenPair("admin_login", << >>,
                           [sub |-> Str(user[1]), email |-> table[user[1]].user_email,
                            role |-> "admin"],
                           table, clock)

admin_login(request, table, clock) ==
    LET user == get_by_email_or_login(table, request.login)
    IN  IF user = << >>
        THEN Result(HTTPException("admin_login", << >>, 401, "Invalid credentials"), table, {})
        ELSE
        LET verified == VerifyStored(request.password, table[user[1]].user_pass)
        IN  IF verified.exc # "none"
            THEN Result(Unhandled("admin_login", << >>, verified.exc), table, {})
            ELSE IF ~verified.val
            THEN Result(HTTPException("admin_login", << >>, 401, "Invalid credentials"), table, {})
            ELSE IF table[user[1]].user_status # 1
            THEN Result(HTTPException("admin_login", << >>, 403,
                                      "Access denied. Admin privileges required."),
                        table, {})
            ELSE TokenPair("admin_login", << >>,
                           [sub |-> Str(user[1]), email |-> table[user[1]].user_email,
                            role |-> "admin"],
                           table, clock)

AdminLogin ==
    \E identifier \in Identifiers, pw \in ServicePasswords :
        Serve(admin_login([login |-> identifier, password |-> pw], users, now))

GetCurrentActiveUser ==
    \E credentials \in {<< >>} \cup Presentable(issued, now) :
        Serve(Result(get_current_active_user(credentials, users, now), users, {}))

\* binding a call's arguments: the parameters without a default that no
\* argument reaches; Python raises TypeError when there is one
MissingArguments(parameters, arguments) ==
    { parameters[i] : i \in (Len(arguments) + 1)..Len(parameters) }

\* POST /auth/signup: the route handler around AuthService.signup
signup_route(request, verification_code, raw_salt, table) ==
    LET op == "signup_route"
        missing == MissingArguments(<< "request", "background_tasks" >>, << request >>)
    IN  IF missing # {}
        THEN Result(Unhandled(op, << >>, "TypeError"), table, {})
        ELSE
        LET r == signup(request, verification_code, raw_salt, table)
        IN  IF r.rsp.status # 200
            THEN [r EXCEPT !.rsp.op = op]
            ELSE [r EXCEPT !.rsp.op = op, !.rsp.status = 201,
                           !.rsp.detail = "Account created successfully."]

SignupRoute ==
    \E email \in Emails, username \in Usernames, pw \in ServicePasswords,
       code \in VerificationCodes, raw_salt \in ServiceSalts :
        Serve(signup_route([email |-> email, username |-> username, password |-> pw],
                           code, raw_salt, users))

NextEntry ==
    \/ SignupRoute
    \/ Login
    \/ AdminLogin
    \/ GetCurrentActiveUser
    \/ Advance

SpecEntry == InitService /\ [][NextEntry]_vars

\* the LoginRequest bodies Login and AdminLogin can send
LoginRequests ==
    { [login |-> identifier, password |-> pw] :
        identifier \in Identifiers, pw \in ServicePasswords }

\* C15: admin_login issues a token pair, with role "admin" in both tokens,
\* only for a user whose password verifies and whose user_status is 1; a
\* correct password with another user_status gets 403 and no tokens, an
\* unknown login or a wrong password gets 401 and no tokens.
C15_AdminTokensOnlyForStatusOne ==
    /\ \A request \in LoginRequests :
          LET r == admin_login(request, users, now)
              user == get_by_email_or_login(users, request.login)
              verified == IF user = << >> THEN Ret(FALSE)
                          ELSE VerifyStored(request.password, users[user[1]].user_pass)
          IN  /\ r.users = users
              /\ (r.rsp.tokens # << >> \/ r.made # {}) =>
                    /\ user # << >>
                    /\ verified = Ret(TRUE)
                    /\ users[user[1]].user_status = 1
                    /\ r.rsp.status = 200
                    /\ \A i \in 1..2 : r.rsp.tokens[i][2].role = "admin"
                                       /\ r.rsp.tokens[i][2].sub = Str(user[1])
              /\ (user # << >> /\ verified = Ret(TRUE) /\ users[user[1]].user_status # 1) =>
                    r.rsp.status = 403 /\ r.rsp.tokens = << >> /\ r.made = {}
              /\ (user = << >> \/ verified = Ret(FALSE)) =>
                    r.rsp.status = 401 /\ r.rsp.tokens = << >> /\ r.made = {}
    /\ (response.op = "admin_login" /\ response.tokens # << >>) =>
          \E i \in DOMAIN users :
              /\ response.tokens[1][2].sub = Str(i)
              /\ users[i].user_status = 1

C15_Witness ==
    /\ response.op = "admin_login"
    /\ response.status = 403
    /\ response.tokens = << >>
    /\ users[1].user_status = 0
    /\ VerifyStored(<<"a">>, users[1].user_pass) = Ret(TRUE)
    /\ \E m \in issued : m.fn = "create_access_token" /\ "role" \notin DOMAIN m.token[2]

\* C16: login raises an HTTP error and issues no tokens when the user is
\* unverified (user_status 0), even if the supplied password is correct.
C16_UnverifiedLoginIsRefused ==
    (response.op = "login" /\ response.tokens # << >>) =>
        \A i \in DOMAIN users :
            response.tokens[1][2].sub = Str(i) => users[i].user_status # 0

\* C17: get_current_active_user returns the user only when the user is
\* verified/active, and raises 403 for every authenticated user whose
\* user_status is 0.
C17_UnverifiedUserIsForbidden ==
    /\ \A credentials \in Presentable(issued, now) :
          LET authenticated == get_current_user(credentials, users, now)
              active == get_current_active_user(credentials, users, now)
          IN  authenticated.status = 200 =>
                  IF users[authenticated.user[1]].user_status = 0
                  THEN active.status = 403 /\ active.user = << >>
                  ELSE active = authenticated
    /\ (response.op = "get_current_user" /\ response.status = 200) =>
          users[response.user[1]].user_status # 0

\* C18: the POST /auth/signup handler, given an email and a username that are
\* not yet registered, creates the user (hash_password output as user_pass,
\* user_status 0, the verification code as activation key) and answers 201;
\* it does not fail for a valid new registration.
C18_SignupRouteCreatesTheUser ==
    [][ \A email \in Emails, username \in Usernames, pw \in ServicePasswords,
           code \in VerificationCodes, raw_salt \in ServiceSalts :
          LET request == [email |-> email, username |-> username, password |-> pw]
              r == signup_route(request, code, raw_salt, users)
          IN  ( /\ ~exists_by_email(users, email)
                /\ ~exists_by_login(users, username)
                /\ response' = r.rsp
                /\ users' = r.users
                /\ response'.op = "signup_route" )
                  => /\ response'.status = 201
                     /\ DOMAIN users' = DOMAIN users \cup { NextId(users) }
                     /\ \A i \in DOMAIN users : users'[i] = users[i]
                     /\ LET row == users'[NextId(users)]
                        IN  /\ row.user_login = username
                            /\ row.user_email = email
                            /\ row.user_status = 0
                            /\ row.user_activation_key = << code >>
                            /\ IsHashPasswordOutput(row.user_pass)
      ]_vars

\* C19: forgot_password returns True for every email; when no user has the
\* email it changes no user record and schedules no email, so what it returns
\* is the same whether or not the account exists.
C19_ForgotPasswordTellsNothing ==
    /\ \A email \in Emails, reset_token \in ResetTokens :
          LET r == forgot_password(email, reset_token, users)
          IN  /\ [r.rsp EXCEPT !.tasks = << >>] =
                    Returned("forgot_password", << >>, 200, << >>, << >>, << >>)
              /\ r.made = {}
              /\ ~exists_by_email(users, email) =>
                    r.users = users /\ r.rsp.tasks = << >>
    /\ response.op = "forgot_password" =>
          response.status = 200 /\ response.detail = ""

C19_Witness ==
    /\ response.op = "forgot_password"
    /\ response.status = 200
    /\ response.tasks = << >>
    /\ ~exists_by_email(users, "new@x")
    /\ \E i \in DOMAIN users : users[i].user_activation_key = << "Zm9yZ290" >>

-----------------------------------------------------------------------------
\* the hash verify_bcrypt_password hands to bcrypt.checkpw
HashToCheck(sh) ==
    IF Len(sh) >= 4 /\ Slice(sh, 0, 4) = <<"$", "2", "y", "$">>
    THEN <<"$", "2", "b", "$">> \o SliceFrom(sh, 4)
    ELSE sh

\* C20: whenever the bcrypt comparison raises (cost factor out of range,
\* truncated hash, invalid salt or prefix), verify_bcrypt_password returns
\* false and raises nothing.
C20_BcryptErrorsAreFalse ==
    ( /\ call.op = "verify_bcrypt_password"
      /\ BcryptCheckpw(Utf8(password), HashToCheck(stored_hash)).exc # "none" )
        => call.ret = Ret(FALSE)

C20_Witness ==
    /\ call.op = "verify_bcrypt_password"
    /\ Len(stored_hash) > 7
    /\ Slice(stored_hash, 0, 7) = <<"$", "2", "b", "$", "9", "9", "$">>
    /\ BcryptCheckpw(Utf8(password), HashToCheck(stored_hash)).exc = "ValueError"
    /\ call.ret = Ret(FALSE)

-----------------------------------------------------------------------------
(* _encode64 on 16-byte inputs, as _crypt_private calls it on a digest.    *)

\* how many leading bytes of the input vary; the last byte always does
MaxVaried == 2

\* byte values on both sides of every 6-bit boundary
ByteSamples == { 0, 63, 64, 128, 255 }

\* 16-byte inputs: the leading bytes and the last one drawn from the samples,
\* the bytes between them fixed
SixteenBytes ==
    { [i \in 1..16 |-> IF i <= MaxVaried THEN lead[i]
                       ELSE IF i = 16 THEN last
                       ELSE (37 * i + 11) % 256] :
        lead \in [1..MaxVaried -> ByteSamples], last \in ByteSamples }

Encode64 ==
    /\ \E input_bytes \in SixteenBytes :
          call' = [op |-> "_encode64",
                   ret |-> Ret(_encode64(input_bytes, 16)),
                   args |-> [input_bytes |-> input_bytes, count |-> 16]]
    /\ UNCHANGED <<password, stored_hash, hashed_from>>
    /\ UNCHANGED svcVars

NextEncode == Encode64

SpecEncode == InitIssue /\ [][NextEncode]_vars

\* the k-th 6-bit digit, from the low end, of the little-endian value of bytes
SixBits(bytes, k) ==
    LET value == bytes[1] + (IF Len(bytes) >= 2 THEN bytes[2] * 256 ELSE 0)
                          + (IF Len(bytes) >= 3 THEN bytes[3] * 65536 ELSE 0)
    IN  ITOA64[((value \div (64 ^ k)) % 64) + 1]

\* C21: for every 16-byte input, _encode64(input, 16) is exactly 22
\* characters of the itoa64 alphabet: 4 characters for each of the five
\* full 3-byte groups, then 2 characters for the final single byte.
C21_SixteenBytesGive22Chars ==
    call.op = "_encode64" =>
        LET input_bytes == call.args.input_bytes
            output == call.ret.val
        IN  /\ call.ret.exc = "none"
            /\ Len(output) = 22
            /\ \A n \in 1..22 : \E k \in 1..64 : output[n] = ITOA64[k]
            /\ \A g \in 0..4, k \in 0..3 :
                  output[4 * g + k + 1] =
                      SixBits(SubSeq(input_bytes, 3 * g + 1, 3 * g + 3), k)
            /\ \A k \in 0..1 :
                  output[21 + k] = SixBits(<< input_bytes[16] >>, k)

C21_Witness ==
    /\ call.op = "_encode64"
    /\ call.args.input_bytes[1] = 255
    /\ call.args.input_bytes[16] = 255
    /\ Len(call.ret.val) = 22
    /\ SubSeq(call.ret.val, 21, 22) = << "z", "1" >>

-----------------------------------------------------------------------------
\* C22: a user's user_pass changes only in a step that is a successful
\* reset_password for that user, made while a token was stored for the
\* user, or a successful change_password made with that user's access
\* token; no other request replaces it.
C22_PasswordChangesOnlyByOwner ==
    [][ \A i \in DOMAIN users :
          users'[i].user_pass # users[i].user_pass =>
              /\ response'.status = 200
              /\ response'.user = << i >>
              /\ \/ /\ response'.op = "reset_password"
                    /\ users[i].user_activation_key \notin { << >>, << "" >> }
                 \/ /\ response'.op = "change_password"
                    /\ \E m \in issued :
                          /\ m.token = response'.credentials
                          /\ m.fn = "create_access_token"
                          /\ m.sub = Str(i)
      ]_vars

-----------------------------------------------------------------------------
(* Email verification, AuthService.verify_email and resend_verification,   *)
(* and the life of an account that signup created.                         *)

\* UserRepository.set_status
set_status(table, id, status) ==
    [table EXCEPT ![id].user_status = status]

verify_email(email, code, table) ==
    LET user == get_by_email(table, email)
    IN  IF user = << >>
        THEN Result(HTTPException("verify_email", << >>, 404, "User not found"), table, {})
        ELSE IF table[user[1]].user_status = 1
        THEN Result(HTTPException("verify_email", << >>, 400, "Email already verified"),
                    table, {})
        ELSE IF table[user[1]].user_activation_key # << code >>
        THEN Result(HTTPException("verify_email", << >>, 400, "Invalid verification code"),
                    table, {})
        ELSE
        LET rsp == Returned("verify_email", << >>, 200, user, << >>, << >>)
        IN  Result([rsp EXCEPT !.tasks = << Task("send_welcome_email", email, "") >>],
                   set_activation_key(set_status(table, user[1], 1), user[1], << >>),
                   {})

resend_verification(email, verification_code, table) ==
    LET user == get_by_email(table, email)
    IN  IF user = << >>
        THEN Result(HTTPException("resend_verification", << >>, 404, "User not found"),
                    table, {})
        ELSE IF table[user[1]].user_status = 1
        THEN Result(HTTPException("resend_verification", << >>, 400,
                                  "Email already verified"), table, {})
        ELSE
        LET rsp == Returned("resend_verification", << >>, 200, << >>, << >>, << >>)
        IN  Result([rsp EXCEPT !.tasks =
                       << Task("send_verification_email", email, verification_code) >>],
                   set_activation_key(table, user[1], << verification_code >>),
                   {})

VerifyEmail ==
    \E email \in Emails, code \in VerificationCodes \cup ResetTokens \cup {""} :
        Serve(verify_email(email, code, users))

ResendVerification ==
    \E email \in Emails, code \in VerificationCodes :
        Serve(resend_verification(email, code, users))

\* the calls an account holder can make, from signup on
NextSignup ==
    \/ Signup
    \/ VerifyEmail
    \/ ResendVerification
    \/ ForgotPassword
    \/ ResetPassword
    \/ Login
    \/ AdminLogin

SpecSignup == InitSessions /\ [][NextSignup]_vars

\* the rows signup created: every row but the one the table started with
SignedUp == DOMAIN users \ {1}

\* C23: a user created through signup never gets a token with role "admin":
\* no admin_login made after any sequence of signup, verify_email,
\* resend_verification, forgot_password, reset_password, login and
\* admin_login answers with tokens for such a user.
C23_SignedUpUserIsNoAdmin ==
    (response.op = "admin_login" /\ response.tokens # << >>) =>
        \A i \in SignedUp : response.tokens[1][2].sub # Str(i)

-----------------------------------------------------------------------------
(* The routes under /admin, app/v1/api/admin.  Each of them depends on     *)
(* get_current_user and on nothing else that looks at the caller.          *)

\* GET /admin/comments: the dependency, then the listing
list_comments(credentials, table, clock) ==
    LET current_user == get_current_user(credentials, table, clock)
    IN  IF current_user.status # 200
        THEN [current_user EXCEPT !.op = "list_comments"]
        ELSE Returned("list_comments", credentials, 200, current_user.user, << >>, << >>)

ListComments ==
    \E credentials \in {<< >>} \cup Presentable(issued, now) :
        Serve(Result(list_comments(credentials, users, now), users, {}))

NextAdminRoutes ==
    \/ Login
    \/ AdminLogin
    \/ ListComments
    \/ Advance

SpecAdminRoutes == InitService /\ [][NextAdminRoutes]_vars

\* the access tokens that login, not admin_login, issued
RegularAccessTokens ==
    { m \in issued : m.fn = "create_access_token" /\ "role" \notin DOMAIN m.token[2] }

\* C24: a request to an admin route that carries an access token issued by
\* the regular login of a user whose user_status is not 1 is rejected.
C24_AdminRoutesNeedAnAdmin ==
    ( /\ response.op = "list_comments"
      /\ \E m \in RegularAccessTokens :
            /\ m.token = response.credentials
            /\ \E i \in DOMAIN users : m.sub = Str(i) /\ users[i].user_status # 1 )
        => response.status \in {401, 403}

-----------------------------------------------------------------------------
\* C25: reset_password succeeds only with a token that forgot_password
\* generated for that user: the activation key it accepts is never the
\* verification code that signup or resend_verification stored.
C25_ResetNeedsAForgotPasswordToken ==
    [][ (response'.op = "reset_password" /\ response'.status = 200) =>
            \A i \in DOMAIN users :
                response'.user = << i >> =>
                    /\ users[i].user_activation_key # << >>
                    /\ users[i].user_activation_key[1] \in ResetTokens
                    /\ users[i].user_activation_key[1] \notin VerificationCodes
      ]_vars

====
